---- MODULE Spec2Model ----
(***************************************************************************)
(* Model of datasets_example.ipynb: the sliding-window text generator      *)
(* (generate_generator / generate_text) and the per-phase tf.data          *)
(* pipelines that are selected at run time through a string handle.        *)
(***************************************************************************)
EXTENDS Integers, Sequences, FiniteSets, TLC

\* ------------------------------------------------------------------ bounds

\* Longest corpus considered (the notebook reads its corpus from a file).
MaxTextLen == 4

\* Number of generator objects that may be alive at once.
NumGens == 2

\* Bytes a corpus is made of: 'a' and a byte above 127 (Python 2 str is bytes).
Alphabet == {97, 195}

Texts == UNION {[1..n -> Alphabet] : n \in 0..MaxTextLen}

\* Window lengths passed to generate_generator, including lengths that do
\* not fit in the corpus.
Lengths == 0..(MaxTextLen + 1)

Gens == 1..NumGens

\* MAX_LENGTH = 32 in the notebook; the model keeps the first phases.
MAX_LENGTH == 2

\* BATCH_SIZE = 2
BATCH_SIZE == 2

\* EPOCHS = 20 in the notebook; the model repeats fewer times.
EPOCHS == 2

\* shuffle(buffer_size=1000) in the notebook; the model's buffer is smaller
\* than its longest epoch, as the notebook's is smaller than its corpus.
BUFFER_SIZE == 2

Min(a, b) == IF a < b THEN a ELSE b

Max(a, b) == IF a > b THEN a ELSE b

\* ------------------------------------------------------------------ state

VARIABLES
    dataset_text,   \* the corpus (cell 2, read once from the file)
    generators,     \* generator objects returned by generate_generator(L)()
    yielded,        \* per generator, the windows its next() calls returned
    iterators,      \* one-shot iterators, one per dataset (list index 0..)
    delivered,      \* per iterator, the elements its batches have delivered
    n_delivered,    \* per iterator, how many elements were delivered
    last_run        \* the latest sess.run(value, {handle: ...}) and its result

vars == <<dataset_text, generators, yielded,
          iterators, delivered, n_delivered, last_run>>

gen_vars == <<generators, yielded>>

data_vars == <<iterators, delivered, n_delivered, last_run>>

\* ------------------------------------------------- the generator, cell 2

\* Python's s[lo:hi] for 0 <= lo and 0 <= hi: the end is clamped to len(s).
Slice(s, lo, hi) ==
    IF lo >= Min(hi, Len(s)) THEN << >> ELSE SubSeq(s, lo + 1, Min(hi, Len(s)))

\* Variant: the first window starts at offset 1.
StartIndexOne == 0 + 1

\* start_index = 0
StartIndex0 == 0

\* Variant: the loop bound includes len(dataset_text) - length.
LoopConditionInclusive(text, length, start_index) ==
    start_index <= Len(text) - length

\* Variant: the loop bound ignores the window length.
LoopConditionTruncating(text, length, start_index) == start_index < Len(text)

\* Variant: the condition is tested only after the first yield.
LoopConditionAtLeastOnce(text, length, start_index) ==
    start_index = 0 \/ start_index < Len(text) - length

\* while start_index < len(dataset_text) - length
LoopCondition(text, length, start_index) == start_index < Len(text) - length

\* dataset_text[start_index:start_index + length]
Window(text, length, start_index) == Slice(text, start_index, start_index + length)

\* Variant: the offset advances by two.
NextIndexSkip(start_index) == start_index + 2

\* start_index += 1
NextIndex(start_index) == start_index + 1

NoGenerator == [length |-> 0, start_index |-> 0, pc |-> "none"]

\* generate_generator(length)(): a fresh generator object whose body has not
\* started running; length is bound in the closure.
generate_generator(length) ==
    [length |-> length, start_index |-> 0, pc |-> "created"]

\* The loop of generate_text entered with start_index = idx: it either
\* suspends at the yield or falls off the end (StopIteration).
generate_text(text, gen, idx) ==
    IF LoopCondition(text, gen.length, idx)
    THEN [gen     |-> [gen EXCEPT !.start_index = idx, !.pc = "yield"],
          stop    |-> FALSE,
          value   |-> Window(text, gen.length, idx)]
    ELSE [gen     |-> [gen EXCEPT !.start_index = idx, !.pc = "done"],
          stop    |-> TRUE,
          value   |-> << >>]

\* generator.next(): run the body from where it is suspended to the next
\* yield or to its end.
generator_next(text, gen) ==
    CASE gen.pc = "created" -> generate_text(text, gen, StartIndex0)
      [] gen.pc = "yield"   -> generate_text(text, gen, NextIndex(gen.start_index))
      [] OTHER              -> [gen |-> gen, stop |-> TRUE, value |-> << >>]

\* Variant: start_index is one counter shared by all running generators.
AdvanceGeneratorsShared(gs, g, text) ==
    LET n == generator_next(text, gs[g]).gen
    IN  [h \in DOMAIN gs |->
            IF h = g THEN n
            ELSE IF gs[h].pc = "yield"
                 THEN [gs[h] EXCEPT !.start_index = n.start_index]
                 ELSE gs[h]]

\* The generator objects after generators[g].next().
AdvanceGenerators(gs, g, text) ==
    [gs EXCEPT ![g] = generator_next(text, gs[g]).gen]

\* ------------------------------------------- the datasets, cell 5

\* datasets is a list: index 0 .. MAX_LENGTH - 1.
DatasetIndexes == 0..(MAX_LENGTH - 1)

\* Variant: every dataset reads the loop variable's final value.
DatasetLengthLateBound(i) == MAX_LENGTH

\* for length in range(1, MAX_LENGTH + 1): the dataset at list index i is
\* built on generate_generator(i + 1).
DatasetLength(i) == i + 1

\* tf.decode_raw(t, tf.int8): each byte of the string as a signed 8-bit value.
decode_raw(t) == [k \in 1..Len(t) |-> IF t[k] >= 128 THEN t[k] - 256 ELSE t[k]]

NoElement == [epoch |-> 0, start |-> 0, data |-> << >>]

\* Dataset.make_one_shot_iterator(): nothing read yet. epoch is repeat's
\* iteration count, gen the Python generator from_generator is reading,
\* buffer the content of the shuffle buffer.
make_one_shot_iterator(i) ==
    [length |-> DatasetLength(i),
     epoch  |-> 0,
     gen    |-> generate_generator(DatasetLength(i)),
     buffer |-> {}]

\* from_generator(...).map(decode_raw): the next element of the current pass
\* over the generator. An element carries the epoch and the start offset it
\* was read at, which the program does not see.
FromGeneratorGetNext(text, it) ==
    LET r == generator_next(text, it.gen)
    IN  [it   |-> [it EXCEPT !.gen = r.gen],
         end  |-> r.stop,
         elem |-> [epoch |-> it.epoch,
                   start |-> r.gen.start_index,
                   data  |-> decode_raw(r.value)]]

\* shuffle(buffer_size): the buffer is filled from upstream until it holds
\* buffer_size elements or upstream has ended.
RECURSIVE ShuffleFill(_, _)
ShuffleFill(text, it) ==
    IF Cardinality(it.buffer) >= BUFFER_SIZE
    THEN it
    ELSE LET r == FromGeneratorGetNext(text, it)
         IN  IF r.end THEN r.it
             ELSE ShuffleFill(text, [r.it EXCEPT !.buffer = @ \cup {r.elem}])

\* shuffle's next element: any element of the filled buffer, which leaves
\* the buffer; the end of the sequence once the buffer stays empty.
ShuffleGetNext(text, it) ==
    LET f == ShuffleFill(text, it)
    IN  IF f.buffer = {}
        THEN {[it |-> f, end |-> TRUE, elem |-> NoElement]}
        ELSE {[it |-> [f EXCEPT !.buffer = @ \ {e}], end |-> FALSE, elem |-> e]
                : e \in f.buffer}

\* Variant: the generator object of the first pass is kept for later passes.
ResetUpstreamKeepGenerator(it) == [it EXCEPT !.buffer = {}]

\* repeat starts a new pass over its input: from_generator calls the
\* generator function again and the shuffle buffer starts empty.
ResetUpstream(it) ==
    [it EXCEPT !.gen = generate_generator(it.length), !.buffer = {}]

\* repeat(EPOCHS): when the input ends, count the pass and start the next
\* one, until EPOCHS passes were made.
RECURSIVE RepeatGetNext(_, _)
RepeatGetNext(text, it) ==
    IF it.epoch >= EPOCHS
    THEN {[it |-> it, end |-> TRUE, elem |-> NoElement]}
    ELSE UNION {IF o.end
                THEN RepeatGetNext(text, ResetUpstream([o.it EXCEPT !.epoch = @ + 1]))
                ELSE {o}
                  : o \in ShuffleGetNext(text, it)}

\* batch(BATCH_SIZE): up to n more elements are appended to the batch; the
\* batch is cut short where the input ends.
RECURSIVE BatchFill(_, _, _, _)
BatchFill(text, it, n, acc) ==
    IF n = 0
    THEN {[it |-> it, batch |-> acc]}
    ELSE UNION {IF o.end
                THEN {[it |-> o.it, batch |-> acc]}
                ELSE BatchFill(text, o.it, n - 1, Append(acc, o.elem))
                  : o \in RepeatGetNext(text, it)}

\* iterator.get_next() on a batched dataset: the possible results.
BatchGetNext(text, it) == BatchFill(text, it, BATCH_SIZE, << >>)

\* handles[k]: the string handle of iterators[k].
handles(k) == k

\* Iterator.from_string_handle(handle): the iterator the fed handle names.
from_string_handle(h) == h

\* Variant: feeding a handle restarts the iterators the handle does not name.
RunIteratorsRestart(its, i, o) ==
    [k \in DOMAIN its |-> IF k = i THEN o.it ELSE make_one_shot_iterator(k)]

\* The iterators after one of them returned result o.
RunIterators(its, i, o) == [its EXCEPT ![i] = o.it]

Range(seq) == {seq[k] : k \in 1..Len(seq)}

\* ---------------------------------------------------------------- actions

Init ==
    /\ dataset_text \in Texts
    /\ generators = [g \in Gens |-> NoGenerator]
    /\ yielded = [g \in Gens |-> << >>]
    /\ iterators = [i \in DatasetIndexes |-> make_one_shot_iterator(i)]
    /\ delivered = [i \in DatasetIndexes |-> {}]
    /\ n_delivered = [i \in DatasetIndexes |-> 0]
    /\ last_run = [phase |-> 0, index |-> 0, status |-> "none", batch |-> << >>]

\* generator = generate_generator(length)()
Call(g, length) ==
    /\ generators[g].pc = "none"
    /\ generators' = [generators EXCEPT ![g] = generate_generator(length)]
    /\ UNCHANGED <<dataset_text, yielded, data_vars>>

\* generator.next()
Advance(g) ==
    /\ generators[g].pc # "none"
    /\ LET r == generator_next(dataset_text, generators[g])
       IN  /\ generators' = AdvanceGenerators(generators, g, dataset_text)
           /\ yielded' = IF r.stop THEN yielded
                         ELSE [yielded EXCEPT ![g] = Append(@, r.value)]
    /\ UNCHANGED <<dataset_text, data_vars>>

Next ==
    \/ \E g \in Gens, length \in Lengths : Call(g, length)
    \/ \E g \in Gens : Advance(g)

Spec == Init /\ [][Next]_vars

\* sess.run(value, {handle: handles[phase - 1]}): the next batch of the
\* iterator the handle names, or OutOfRangeError when it has none left.
Run(phase) ==
    LET i == from_string_handle(handles(phase - 1))
    IN  \E o \in BatchGetNext(dataset_text, iterators[i]) :
            /\ iterators' = RunIterators(iterators, i, o)
            /\ delivered' = [delivered EXCEPT ![i] = @ \cup Range(o.batch)]
            /\ n_delivered' = [n_delivered EXCEPT ![i] = @ + Len(o.batch)]
            /\ last_run' = [phase  |-> phase,
                            index  |-> i,
                            status |-> IF o.batch = << >> THEN "OutOfRangeError"
                                       ELSE "batch",
                            batch  |-> o.batch]
            /\ UNCHANGED <<dataset_text, gen_vars>>

NextData == \E phase \in 1..MAX_LENGTH : Run(phase)

SpecData == Init /\ [][NextData]_vars

\* Two generators, each advanced again and again once it exists.
FairGens == {1, 2}

NextFair ==
    \/ \E g \in FairGens, length \in Lengths : Call(g, length)
    \/ \E g \in FairGens : Advance(g)

FairSpec ==
    Init /\ [][NextFair]_vars /\ \A g \in FairGens : WF_vars(Advance(g))

\* ----------------------------------------------------------- properties

Created(g) == generators[g].pc # "none"

Started(g) == generators[g].pc \in {"yield", "done"}

Exhausted(g) == generators[g].pc = "done"

IsPrefix(a, b) == Len(a) <= Len(b) /\ \A k \in 1..Len(a) : a[k] = b[k]

\* The bytes an int8 vector stands for (chr of each value, modulo 256).
ToBytes(d) == [k \in 1..Len(d) |-> IF d[k] < 0 THEN d[k] + 256 ELSE d[k]]

IsSubstring(w, text) ==
    \E s \in 0..(Len(text) - Len(w)) : \A k \in 1..Len(w) : text[s + k] = w[k]

\* All windows a fresh generator for the given length yields until it stops.
RECURSIVE Exhaust(_, _, _)
Exhaust(text, gen, acc) ==
    LET r == generator_next(text, gen)
    IN  IF r.stop THEN acc ELSE Exhaust(text, r.gen, Append(acc, r.value))

GeneratedWindows(text, length) == Exhaust(text, generate_generator(length), << >>)

\* C1 as stated: an exhausted generator for window length L has produced
\* exactly len(text) - L windows, for every corpus and every L.
C1_CountIsLenMinusL ==
    \A g \in Gens : Exhausted(g) =>
        Len(yielded[g]) = Len(dataset_text) - generators[g].length

\* C1 as amended: an exhausted generator for window length L has produced
\* exactly max(0, len(text) - L) windows: len(text) - L of them when
\* L <= len(text), none when L > len(text).
C1_CountIsLenMinusLOrZero ==
    \A g \in Gens : Exhausted(g) =>
        Len(yielded[g]) = Max(0, Len(dataset_text) - generators[g].length)

C1_Witness ==
    /\ \E g \in Gens : /\ Exhausted(g)
                       /\ generators[g].length = 1
                       /\ Len(yielded[g]) = 3
    /\ \E g \in Gens : /\ Exhausted(g)
                       /\ generators[g].length > Len(dataset_text)
                       /\ yielded[g] = << >>

\* C2 as stated: an exhausted generator for window length L has produced
\* every substring of exactly L characters of the corpus, at each start
\* offset 0 .. len(text) - L, the one ending at the last character included.
C2_EveryFullWindowProduced ==
    \A g \in Gens : Exhausted(g) =>
        \A s \in 0..(Len(dataset_text) - generators[g].length) :
            /\ Len(yielded[g]) >= s + 1
            /\ yielded[g][s + 1] = SubSeq(dataset_text, s + 1, s + generators[g].length)

\* C3: every window a generator created with generate_generator(L) has
\* yielded has length exactly L; none is truncated.
C3_WindowHasLengthL ==
    \A g \in Gens : \A k \in 1..Len(yielded[g]) :
        Len(yielded[g][k]) = generators[g].length

C3_Witness ==
    \E g \in Gens : /\ Exhausted(g)
                    /\ generators[g].length = 2
                    /\ Len(yielded[g]) = 2
                    /\ Len(yielded[g][2]) = 2

\* C4: the start offset is 0 at the first yield and advances by one between
\* consecutive yields: the k-th window (from 0) is text[k .. k+L-1], and the
\* last L - 1 characters of a window are the first L - 1 of the next one.
C4_OffsetsAdvanceByOne ==
    \A g \in Gens :
        LET L == generators[g].length
            y == yielded[g]
        IN  /\ generators[g].pc = "yield" => generators[g].start_index = Len(y) - 1
            /\ \A k \in 0..(Len(y) - 1) :
                   /\ k + L <= Len(dataset_text)
                   /\ y[k + 1] = [j \in 1..L |-> dataset_text[k + j]]
            /\ \A k \in 1..(Len(y) - 1) :
                   /\ Len(y[k]) = L /\ Len(y[k + 1]) = L
                   /\ \A j \in 1..(L - 1) : y[k][j + 1] = y[k + 1][j]

C4_Witness ==
    \E g \in Gens : /\ generators[g].pc = "yield"
                    /\ generators[g].length = 2
                    /\ generators[g].start_index = 1
                    /\ Len(yielded[g]) = 2
                    /\ yielded[g][1] # yielded[g][2]

\* C5 as stated: from the initialisation of start_index to exhaustion,
\* 0 <= start_index < len(text) - length.
C5_IndexBelowLenMinusLength ==
    \A g \in Gens : Started(g) =>
        /\ 0 <= generators[g].start_index
        /\ generators[g].start_index < Len(dataset_text) - generators[g].length

\* C5 as amended: from the initialisation of start_index to exhaustion,
\* 0 <= start_index <= max(0, len(text) - length); the strict bound
\* start_index < len(text) - length holds while the generator is suspended
\* at a yield, and an exhausted generator has start_index equal to
\* max(0, len(text) - length).
C5_IndexWithinRange ==
    \A g \in Gens : Started(g) =>
        LET bound == Len(dataset_text) - generators[g].length
        IN  /\ 0 <= generators[g].start_index
            /\ generators[g].start_index <= Max(0, bound)
            /\ generators[g].pc = "yield" => generators[g].start_index < bound
            /\ generators[g].pc = "done" => generators[g].start_index = Max(0, bound)

C5_Witness ==
    /\ \E g \in Gens : /\ Exhausted(g)
                       /\ generators[g].start_index = 2
                       /\ generators[g].start_index =
                              Len(dataset_text) - generators[g].length
    /\ \E g \in Gens : /\ generators[g].pc = "yield"
                       /\ generators[g].start_index = 1

\* C8: a generator that is advanced again and again is eventually
\* exhausted; when L >= len(text) its first advance exhausts it and it has
\* yielded no window.
C8_EventuallyExhausted ==
    /\ \A g \in Gens : Created(g) ~> Exhausted(g)
    /\ [](\A g \in Gens :
            (Started(g) /\ generators[g].length >= Len(dataset_text)) =>
                (Exhausted(g) /\ yielded[g] = << >>))

C8_Witness ==
    /\ \E g \in Gens : /\ Exhausted(g)
                       /\ generators[g].length = Len(dataset_text)
                       /\ Len(dataset_text) > 0
                       /\ yielded[g] = << >>
    /\ \E g \in Gens : Exhausted(g) /\ Len(yielded[g]) = 2

\* C10: generators are independent: a step changes at most one generator
\* and never the window length of a created one; each starts at offset 0;
\* two generators for the same L over the same corpus yield the same
\* sequence of windows.
C10_GeneratorsIndependent ==
    /\ [][\A g \in Gens :
            /\ Created(g) => generators'[g].length = generators[g].length
            /\ generators'[g] # generators[g] =>
                  \A h \in Gens \ {g} :
                      generators'[h] = generators[h] /\ yielded'[h] = yielded[h]]_vars
    /\ [](\A g \in Gens :
            /\ generators[g].pc = "created" => yielded[g] = << >>
            /\ yielded[g] = << >> \/
                  yielded[g][1] = Slice(dataset_text, 0, generators[g].length)
            /\ Exhausted(g) =>
                  yielded[g] = GeneratedWindows(dataset_text, generators[g].length)
            /\ \A h \in Gens :
                  (Created(g) /\ Created(h)
                     /\ generators[g].length = generators[h].length) =>
                      /\ IsPrefix(yielded[g], yielded[h]) \/ IsPrefix(yielded[h], yielded[g])
                      /\ (Exhausted(g) /\ Exhausted(h)) => yielded[g] = yielded[h])

C10_Witness ==
    \E g, h \in Gens :
        /\ g # h
        /\ generators[g].length = 1 /\ generators[h].length = 1
        /\ Exhausted(g) /\ Len(yielded[g]) = 3
        /\ generators[h].pc = "yield" /\ generators[h].start_index = 0

\* C6: a batch returned by evaluating value with handles[p - 1] holds
\* sequences of exactly p values each, every one a substring of the corpus,
\* whatever handles were fed before.
C6_BatchOfFedPhase ==
    last_run.status = "batch" =>
        \A k \in 1..Len(last_run.batch) :
            /\ Len(last_run.batch[k].data) = last_run.phase
            /\ IsSubstring(ToBytes(last_run.batch[k].data), dataset_text)

C6_Witness ==
    /\ last_run.status = "batch"
    /\ last_run.phase = 2
    /\ Len(last_run.batch) = 2
    /\ \E k \in 1..2, j \in 1..2 : last_run.batch[k].data[j] < 0
    /\ n_delivered[0] = 2

\* C7: the stream behind handles[p - 1] delivers the windows of
\* generate_generator(p) epoch by epoch (no window of an epoch before every
\* window of the epoch before it), each window once per epoch, and once it
\* is exhausted it has delivered each window exactly EPOCHS times and
\* delivers nothing more.
C7_EachWindowOncePerEpoch ==
    \A i \in DatasetIndexes :
        LET W == GeneratedWindows(dataset_text, i + 1)
        IN  /\ n_delivered[i] = Cardinality(delivered[i])
            /\ \A d \in delivered[i] :
                   /\ d.epoch \in 0..(EPOCHS - 1)
                   /\ d.start \in 0..(Len(W) - 1)
                   /\ d.data = decode_raw(W[d.start + 1])
                   /\ d.epoch > 0 =>
                         \A s \in 0..(Len(W) - 1) :
                             \E e \in delivered[i] :
                                 e.epoch = d.epoch - 1 /\ e.start = s
            /\ last_run.index = i =>
                   \A k \in 1..(Len(last_run.batch) - 1) :
                       last_run.batch[k].epoch <= last_run.batch[k + 1].epoch
            /\ (iterators[i].epoch >= EPOCHS
                  \/ (last_run.index = i /\ last_run.status = "OutOfRangeError")) =>
                   n_delivered[i] = EPOCHS * Len(W)

C7_Witness ==
    /\ last_run.status = "OutOfRangeError"
    /\ last_run.phase = 1
    /\ n_delivered[0] = 3 * EPOCHS
    /\ iterators[0].epoch = EPOCHS

\* C9: evaluating value with the handle of phase p changes only phase p's
\* iterator: the other iterators, what they have delivered, and the corpus
\* stay as they were.
C9_OnlyFedIteratorAdvances ==
    [][/\ dataset_text' = dataset_text
       /\ \A i \in DatasetIndexes :
              i # last_run'.phase - 1 =>
                  /\ iterators'[i] = iterators[i]
                  /\ delivered'[i] = delivered[i]
                  /\ n_delivered'[i] = n_delivered[i]]_vars

C9_Witness ==
    /\ last_run.phase = 1
    /\ last_run.status = "batch"
    /\ n_delivered[0] = 4
    /\ n_delivered[1] = 2
    /\ iterators[0].epoch = 1
    /\ iterators[1].epoch = 0

====
